---- MODULE Spec2Model ----
(***************************************************************************)
(* The listing page of the blog (src/pages/index.astro, kept here as       *)
(* src/unnamed/part_001): one generation pass reads the blog directory,    *)
(* drops the drafts, sorts what is left by date, newest first, and maps    *)
(* the result to list entries.                                             *)
(*                                                                         *)
(* JavaScript arrays are objects: `posts` and `sortedPosts` are references *)
(* into a heap of arrays, so that an in-place operation (Array.sort) shows *)
(* up on every reference to the array it sorts.                            *)
(*                                                                         *)
(* frontmatter.date is a Date.  The content files carry date-only values   *)
(* (date: 2023-08-20), i.e. UTC midnight of a calendar day, so a date is a *)
(* record [y, m, d] and valueOf() is counted in days since 1970-01-01 (the *)
(* millisecond value is that number times 86400000, which does not change  *)
(* the sign of a difference).                                              *)
(***************************************************************************)
EXTENDS Integers, Sequences, FiniteSets, TLC

VARIABLES dir, pc, heap, posts, filtered, sortedPosts, listing,
          pass, prevPosts, prevSorted, SITE, SITE_URL, SITE_TITLE, pageTitle

vars == <<dir, pc, heap, posts, filtered, sortedPosts, listing,
          pass, prevPosts, prevSorted, SITE, SITE_URL, SITE_TITLE, pageTitle>>

\* ------------------------------------------------------------------ bounds
MaxPosts == 3
MaxPasses == 2

\* --------------------------------------------------------------- documents
Date(y, m, d) == [y |-> y, m |-> m, d |-> d]

\* the dates of the posts under src/content/blog and src/unnamed/part_000
D20230606 == Date(2023, 6, 6)
D20230820 == Date(2023, 8, 20)
D20250616 == Date(2025, 6, 16)
D20230728 == Date(2023, 7, 28)
\* a date the schema cannot parse into a calendar date
DUnparseable == Date(2023, 2, 30)

\* dates on both sides of a day, month, leap-day and year boundary
BoundaryDates ==
  { Date(2023, 9, 30), Date(2023, 10, 1), Date(2023, 12, 31),
    Date(2024, 1, 1), Date(2024, 2, 29), Date(2024, 3, 1) }

\* frontmatter.draft: true, false or undefined (the field is optional)
DraftValues == {"true", "false", "absent"}

SlugNames == <<"post-1", "post-2", "post-3", "post-4", "post-5", "post-6">>
TitleNames == <<"Title 1", "Title 2", "Title 3", "Title 4", "Title 5", "Title 6">>

\* The i-th file the directory enumeration yields.  description and body are
\* never read by the page and are left out.
File(i, date, draft) ==
  [slug |-> SlugNames[i],
   frontmatter |-> [title |-> TitleNames[i], date |-> date, draft |-> draft,
                    external |-> FALSE, url |-> "absent",
                    ogImagePath |-> "image.webp"]]

\* the directory of n files with the given dates and draft values, in
\* enumeration order
DirOf(n, dd) == [i \in 1..n |-> File(i, dd[i][1], dd[i][2])]

\* The i-th file of the enumeration with the frontmatter fm (title aside).
FileOf(i, fm) ==
  [slug |-> SlugNames[i],
   frontmatter |-> [title |-> TitleNames[i], date |-> fm.date,
                    draft |-> fm.draft, external |-> fm.external,
                    url |-> fm.url, ogImagePath |-> fm.ogImagePath]]

\* the directory of n files with the frontmatters ff, in enumeration order
DirFrom(n, ff) == [i \in 1..n |-> FileOf(i, ff[i])]

\* external and url of a frontmatter: a local post, a link to an off-site
\* post, and an external post whose url is missing
LocalPost == [external |-> FALSE, url |-> "absent"]
LinkPost == [external |-> TRUE, url |-> "https://elsewhere.example/post"]
LinkPostNoUrl == [external |-> TRUE, url |-> "absent"]

\* ogImagePath of a frontmatter: none, an image that is served, an image
\* that is not
ImagePaths == {"absent", "image.webp", "unreachable.webp"}

\* frontmatters that vary date, draft, external and url
ExternalFrontmatters ==
  { [date |-> d, draft |-> dr, external |-> e.external, url |-> e.url,
     ogImagePath |-> "image.webp"] :
      d \in {D20230606, D20250616}, dr \in {"false", "true"},
      e \in {LocalPost, LinkPost, LinkPostNoUrl} }

\* published frontmatters that vary date, external and ogImagePath
ImageFrontmatters ==
  { [date |-> d, draft |-> "false", external |-> e.external, url |-> e.url,
     ogImagePath |-> og] :
      d \in {D20230606, D20250616}, e \in {LocalPost, LinkPost},
      og \in ImagePaths }

\* ------------------------------------------------------------------- dates
IsLeap(y) == (y % 4 = 0 /\ y % 100 # 0) \/ y % 400 = 0

DaysInMonth(y, m) ==
  IF m = 2 THEN (IF IsLeap(y) THEN 29 ELSE 28)
  ELSE IF m \in {4, 6, 9, 11} THEN 30 ELSE 31

IsValidDate(date) ==
  /\ date.m \in 1..12
  /\ date.d \in 1..DaysInMonth(date.y, date.m)

\* variant: the url of an external document is not asked for
ValidatesDateOnly(doc) == IsValidDate(doc.frontmatter.date)
\* the frontmatter schema accepts a document: its date is a calendar date,
\* and it has a url when it is external
Validates(doc) ==
  /\ IsValidDate(doc.frontmatter.date)
  /\ doc.frontmatter.external => doc.frontmatter.url # "absent"

LeapsBefore(y) == ((y - 1) \div 4) - ((y - 1) \div 100) + ((y - 1) \div 400)

DayFromYear(y) == 365 * (y - 1970) + LeapsBefore(y) - LeapsBefore(1970)

\* 1972 is a leap year, 1970 is not
YearLike(leap) == IF leap THEN 1972 ELSE 1970

RECURSIVE DaysBeforeMonthOf(_, _)
DaysBeforeMonthOf(y, m) ==
  IF m <= 1 THEN 0 ELSE DaysBeforeMonthOf(y, m - 1) + DaysInMonth(y, m - 1)

\* the days of a year before the first of each month, for common and for
\* leap years
MonthOffsets ==
  [leap \in BOOLEAN |-> [m \in 1..12 |-> DaysBeforeMonthOf(YearLike(leap), m)]]

DaysBeforeMonth(y, m) == MonthOffsets[IsLeap(y)][m]

\* variants: the digits of day/month/year read as a number; the year alone
valueOfDayFirst(date) == date.d * 1000000 + date.m * 10000 + date.y
valueOfYearOnly(date) == date.y
\* new Date(d).valueOf() with d the Date 00:00 UTC of a calendar day, in days
valueOf(date) == DayFromYear(date.y) + DaysBeforeMonth(date.y, date.m) + date.d - 1

\* -------------------------------------------------------------- filter/sort
\* variants: (p) => p.frontmatter.draft === false; no filtering; external
\* posts dropped as well
keepLocalOnly(p) == p.frontmatter.draft # "true" /\ ~ p.frontmatter.external
keepOnlyFalse(p) == p.frontmatter.draft = "false"
keepAll(p) == TRUE
\* (p) => p.frontmatter.draft !== true
isPublished(p) == p.frontmatter.draft # "true"

\* Array.prototype.filter: a new array of the elements the callback keeps,
\* in their order
FilterDraft(arr) == SelectSeq(arr, isPublished)

\* variant: the drafts are removed from the source array itself
filterInPlace(src) == src
\* the array Array.prototype.filter writes its result to: a fresh one
filterTarget(src) == "filterArray"

\* variant: a - b
compareAscending(a, b) == valueOf(a.frontmatter.date) - valueOf(b.frontmatter.date)
\* (a, b) => new Date(b.frontmatter.date).valueOf()
\*         - new Date(a.frontmatter.date).valueOf()
compare(a, b) == valueOf(b.frontmatter.date) - valueOf(a.frontmatter.date)

\* the rearrangements of the indices of an array of n elements
IndexOrders(n) ==
  { p \in [1..n -> 1..n] : \A i, j \in 1..n : i # j => p[i] # p[j] }

\* the same, tabulated for every length an array of posts can have
OrdersOfLen == [n \in 0..MaxPosts |-> IndexOrders(n)]

\* variants: a sort that leaves equal elements in any order; a sort that
\* reverses them
SortResultsUnstable(arr) ==
  { [i \in 1..Len(arr) |-> arr[p[i]]] :
      p \in { q \in OrdersOfLen[Len(arr)] :
                \A i, j \in 1..Len(arr) :
                  i < j => compare(arr[q[i]], arr[q[j]]) <= 0 } }
SortResultsTiesReversed(arr) ==
  { [i \in 1..Len(arr) |-> arr[p[i]]] :
      p \in { q \in OrdersOfLen[Len(arr)] :
                \A i, j \in 1..Len(arr) :
                  i < j => \/ compare(arr[q[i]], arr[q[j]]) < 0
                           \/ /\ compare(arr[q[i]], arr[q[j]]) = 0
                              /\ q[i] > q[j] } }
\* Array.prototype.sort (ECMAScript 2019 and later): the elements of the
\* array rearranged so that no element follows one the comparator puts
\* after it, elements the comparator calls equal keeping their order.
\* The set of arrays the call may leave behind.
SortResults(arr) ==
  { [i \in 1..Len(arr) |-> arr[p[i]]] :
      p \in { q \in OrdersOfLen[Len(arr)] :
                \A i, j \in 1..Len(arr) :
                  i < j => \/ compare(arr[q[i]], arr[q[j]]) < 0
                           \/ /\ compare(arr[q[i]], arr[q[j]]) = 0
                              /\ q[i] < q[j] } }

\* ------------------------------------------------------------------ render
MonthNames == <<"Jan", "Feb", "Mar", "Apr", "May", "Jun",
                "Jul", "Aug", "Sep", "Oct", "Nov", "Dec">>

\* the calendar day before a date
PrevDay(date) ==
  IF date.d > 1 THEN Date(date.y, date.m, date.d - 1)
  ELSE IF date.m > 1
       THEN Date(date.y, date.m - 1, DaysInMonth(date.y, date.m - 1))
       ELSE Date(date.y - 1, 12, 31)

\* the local calendar day of 00:00 UTC: the same day in a time zone at or
\* east of UTC, the day before in a time zone west of UTC
TimeZones == {"utc-or-east", "west"}
LocalDay(date, tz) == IF tz = "west" THEN PrevDay(date) ELSE date

\* toLocaleDateString("en-us", {year: "numeric", month: "short", day: "numeric"})
toLocaleDateString(date, tz) ==
  <<MonthNames[LocalDay(date, tz).m], LocalDay(date, tz).d, LocalDay(date, tz).y>>

\* Date.prototype.toISOString, date part (the time part is T00:00:00.000Z)
toISOString(date) == <<date.y, date.m, date.d>>

\* variants: every title links to /blog/<slug>; the image is put in both
\* branches; the internal link is /blog/ without the slug
EntryNoSlug(post, tz) ==
  [title |-> post.frontmatter.title,
   href |-> IF post.frontmatter.external
            THEN <<post.frontmatter.url>>
            ELSE <<"/blog/">>,
   newTab |-> post.frontmatter.external,
   img |-> IF post.frontmatter.external
           THEN "none" ELSE post.frontmatter.ogImagePath,
   datetime |-> toISOString(post.frontmatter.date),
   formattedDate |-> toLocaleDateString(post.frontmatter.date, tz)]
EntryInternalOnly(post, tz) ==
  [title |-> post.frontmatter.title,
   href |-> <<"/blog/", post.slug>>,
   newTab |-> post.frontmatter.external,
   img |-> IF post.frontmatter.external
           THEN "none" ELSE post.frontmatter.ogImagePath,
   datetime |-> toISOString(post.frontmatter.date),
   formattedDate |-> toLocaleDateString(post.frontmatter.date, tz)]
EntryImageBoth(post, tz) ==
  [title |-> post.frontmatter.title,
   href |-> IF post.frontmatter.external
            THEN <<post.frontmatter.url>>
            ELSE <<"/blog/", post.slug>>,
   newTab |-> post.frontmatter.external,
   img |-> post.frontmatter.ogImagePath,
   datetime |-> toISOString(post.frontmatter.date),
   formattedDate |-> toLocaleDateString(post.frontmatter.date, tz)]
\* the <li> of one post: the link of the title, whether it opens a new tab,
\* the src of the <img> ("none": no <img>; "absent": an <img> without src),
\* the datetime of the <time> and its text
Entry(post, tz) ==
  [title |-> post.frontmatter.title,
   href |-> IF post.frontmatter.external
            THEN <<post.frontmatter.url>>
            ELSE <<"/blog/", post.slug>>,
   newTab |-> post.frontmatter.external,
   img |-> IF post.frontmatter.external
           THEN "none" ELSE post.frontmatter.ogImagePath,
   datetime |-> toISOString(post.frontmatter.date),
   formattedDate |-> toLocaleDateString(post.frontmatter.date, tz)]

\* variants: a placeholder entry when there is no post; the entries in
\* reverse; posts without an image left out; the newest post only
RenderListingFirstOnly(arr, tz) ==
  IF Len(arr) = 0 THEN <<>> ELSE <<Entry(arr[1], tz)>>
RenderListingReversed(arr, tz) ==
  [i \in 1..Len(arr) |-> Entry(arr[Len(arr) + 1 - i], tz)]
HasImage(post) == post.frontmatter.ogImagePath # "absent"
RenderListingImagesOnly(arr, tz) ==
  [i \in 1..Len(SelectSeq(arr, HasImage)) |->
     Entry(SelectSeq(arr, HasImage)[i], tz)]
EmptyNotice == [title |-> "No posts", href |-> <<"/">>, newTab |-> FALSE,
                img |-> "none", datetime |-> <<0, 0, 0>>,
                formattedDate |-> <<"", 0, 0>>]
RenderListingWithNotice(arr, tz) ==
  IF Len(arr) = 0 THEN <<EmptyNotice>>
  ELSE [i \in 1..Len(arr) |-> Entry(arr[i], tz)]
\* sortedPosts.map((post) => <li>...</li>)
RenderListing(arr, tz) == [i \in 1..Len(arr) |-> Entry(arr[i], tz)]

\* ------------------------------------------------------------------ config
\* import.meta.env.SITE is a string; it is kept as the sequence of its
\* pieces, each with the kind of piece it is.
Tok(k, v) == [k |-> k, v |-> v]

\* SITE is not set: new URL(undefined) parses the string "undefined"
SiteUndefined == <<Tok("text", "undefined")>>
SiteNoHost == <<Tok("scheme", "https"), Tok("sep", "://")>>
\* the site of the blog
SiteBlog ==
  <<Tok("scheme", "https"), Tok("sep", "://"), Tok("host", "blog.damianesteban.dev")>>
SiteBlogSlash == SiteBlog \o <<Tok("path", "/")>>
SiteDefaultPort ==
  SiteBlog \o <<Tok("colon", ":"), Tok("port", "443"), Tok("path", "/blog/"),
                Tok("query", "?page=2"), Tok("fragment", "#top")>>
SiteOtherPort ==
  SiteBlog \o <<Tok("colon", ":"), Tok("port", "8443"), Tok("query", "?draft"),
                Tok("fragment", "#top")>>
SiteLocal ==
  <<Tok("scheme", "http"), Tok("sep", "://"), Tok("host", "localhost"),
    Tok("colon", ":"), Tok("port", "4321"), Tok("path", "/base/")>>

SiteValues ==
  { SiteUndefined, SiteNoHost, SiteBlog, SiteBlogSlash, SiteDefaultPort,
    SiteOtherPort, SiteLocal }

KindsOf(s) == [i \in 1..Len(s) |-> s[i].k]

\* what may follow the authority of a URL: path, query and fragment, each
\* optional, in this order
TailKinds ==
  { p \o q \o f : p \in {<<>>, <<"path">>}, q \in {<<>>, <<"query">>},
                  f \in {<<>>, <<"fragment">>} }

AuthorityKinds == { <<"scheme", "sep", "host">>,
                    <<"scheme", "sep", "host", "colon", "port">> }

\* the port a scheme uses when the URL names none
DefaultPort(scheme) == IF scheme = "https" THEN "443" ELSE "80"

\* the piece of the given kind, "" when there is none
PieceOf(s, kind) ==
  IF \E i \in 1..Len(s) : s[i].k = kind
  THEN s[CHOOSE i \in 1..Len(s) : s[i].k = kind].v
  ELSE ""

\* new URL(s): the parsed URL, or a TypeError when s is not an absolute URL
ParseURL(s) ==
  IF \E a \in AuthorityKinds, t \in TailKinds : KindsOf(s) = a \o t
  THEN [ok |-> TRUE,
        protocol |-> PieceOf(s, "scheme"),
        hostname |-> PieceOf(s, "host"),
        port |-> IF PieceOf(s, "port") = DefaultPort(PieceOf(s, "scheme"))
                 THEN "" ELSE PieceOf(s, "port"),
        pathname |-> IF PieceOf(s, "path") = "" THEN "/" ELSE PieceOf(s, "path"),
        search |-> PieceOf(s, "query"),
        hash |-> PieceOf(s, "fragment")]
  ELSE [ok |-> FALSE, protocol |-> "", hostname |-> "", port |-> "",
        pathname |-> "", search |-> "", hash |-> ""]

\* variant: BASE_URL.href
href(url) ==
  <<url.protocol, "://", url.hostname>>
    \o (IF url.port = "" THEN <<>> ELSE <<":", url.port>>)
    \o <<url.pathname>>
    \o (IF url.search = "" THEN <<>> ELSE <<url.search>>)
    \o (IF url.hash = "" THEN <<>> ELSE <<url.hash>>)
\* BASE_URL.origin
origin(url) ==
  <<url.protocol, "://", url.hostname>>
    \o (IF url.port = "" THEN <<>> ELSE <<":", url.port>>)

\* ----------------------------------------------------------------- actions
NoArrays == [r \in {} |-> <<>>]

\* no module is loaded, no array exists
Start(sites) ==
  /\ SITE \in sites
  /\ SITE_URL = <<>>
  /\ SITE_TITLE = ""
  /\ pageTitle = ""
  /\ pc = "import"
  /\ heap = NoArrays
  /\ posts = "null"
  /\ filtered = "null"
  /\ sortedPosts = "null"
  /\ listing = <<>>
  /\ pass = 1
  /\ prevPosts = <<>>
  /\ prevSorted = <<>>

\* a directory of at most MaxPosts files with frontmatters of fms
InitFrom(fms, sites) ==
  /\ \E n \in 0..MaxPosts : \E ff \in [1..n -> fms] : dir = DirFrom(n, ff)
  /\ Start(sites)

InitWith(dates, drafts) ==
  /\ \E n \in 0..MaxPosts :
       \E dd \in [1..n -> dates \X drafts] : dir = DirOf(n, dd)
  /\ Start({SiteBlog})

\* the blog directory: the four dates of the repository's posts and a date
\* the schema rejects, every draft value
Init ==
  InitWith({D20230606, D20230728, D20230820, D20250616, DUnparseable},
           DraftValues)

\* the blog directory with published posts around calendar boundaries
InitDates == InitWith(BoundaryDates, {"false"})

\* the blog directory with local and external posts, some of them without
\* the url an external post needs
InitExternal == InitFrom(ExternalFrontmatters, {SiteBlog})

\* the blog directory with published posts with and without an image
InitImage == InitFrom(ImageFrontmatters, {SiteBlog})

\* a small blog directory and every value of SITE
InitConfig ==
  InitFrom({ [date |-> d, draft |-> "false", external |-> FALSE,
              url |-> "absent", ogImagePath |-> "image.webp"] :
               d \in {D20230606, D20250616} },
           SiteValues)

\* export const SITE_TITLE = "Cloud & Code with Damian Esteban "
SiteTitleText == "Cloud & Code with Damian Esteban "

\* variant: the origin falls back to a local address when SITE does not parse
ImportConfigWithFallback ==
  /\ pc = "import"
  /\ SITE_TITLE' = SiteTitleText
  /\ SITE_URL' = IF ParseURL(SITE).ok THEN origin(ParseURL(SITE))
                 ELSE <<"http", "://", "localhost">>
  /\ pc' = "readAll"
  /\ UNCHANGED <<dir, heap, posts, filtered, sortedPosts, listing, pass,
                 prevPosts, prevSorted, SITE, pageTitle>>
\* import { SITE_TITLE } from "../config": the module is evaluated, once,
\* before the frontmatter script runs
\*   export const SITE_TITLE = "...";
\*   const BASE_URL = new URL(import.meta.env.SITE);
\*   export const SITE_URL = BASE_URL.origin;
\* When new URL throws, the evaluation of the module fails and with it the
\* import: the page gets none of the module's bindings and does not run.
ImportConfig ==
  /\ pc = "import"
  /\ IF ParseURL(SITE).ok
     THEN /\ SITE_TITLE' = SiteTitleText
          /\ SITE_URL' = origin(ParseURL(SITE))
          /\ pc' = "readAll"
     ELSE /\ pc' = "failed"
          /\ UNCHANGED <<SITE_URL, SITE_TITLE>>
  /\ UNCHANGED <<dir, heap, posts, filtered, sortedPosts, listing, pass,
                 prevPosts, prevSorted, SITE, pageTitle>>

\* readAll({directory: "blog", frontmatterSchema: blog}): every file of the
\* directory in enumeration order, or a failure when the schema rejects one
readAll(d) ==
  IF \A i \in 1..Len(d) : Validates(d[i])
  THEN [ok |-> TRUE, value |-> d]
  ELSE [ok |-> FALSE, value |-> <<>>]

\* variant: readAll(...).catch(() => [])
awaitReadAllCatch(d) == [ok |-> TRUE, value |-> readAll(d).value]
\* await readAll(...): the value, or the rejection, which nothing catches
awaitReadAll(d) == readAll(d)

\* const posts = await readAll({directory: "blog", frontmatterSchema: blog})
ReadAll ==
  /\ pc = "readAll"
  /\ IF awaitReadAll(dir).ok
     THEN /\ heap' = ("postsArray" :> awaitReadAll(dir).value)
          /\ posts' = "postsArray"
          /\ pc' = "filter"
     ELSE /\ pc' = "failed"
          /\ UNCHANGED <<heap, posts>>
  /\ UNCHANGED <<dir, filtered, sortedPosts, listing, pass, prevPosts,
                 prevSorted, SITE, SITE_URL, SITE_TITLE, pageTitle>>

\* posts.filter(...)
Filter ==
  /\ pc = "filter"
  /\ heap' = (filterTarget(posts) :> FilterDraft(heap[posts])) @@ heap
  /\ filtered' = filterTarget(posts)
  /\ pc' = "sort"
  /\ UNCHANGED <<dir, posts, sortedPosts, listing, pass, prevPosts, prevSorted,
                 SITE, SITE_URL, SITE_TITLE, pageTitle>>

\* .sort(...) on the array filter returned, in place; const sortedPosts = it
Sort ==
  /\ pc = "sort"
  /\ \E r \in SortResults(heap[filtered]) :
       heap' = (filtered :> r) @@ heap
  /\ sortedPosts' = filtered
  /\ pc' = "render"
  /\ UNCHANGED <<dir, posts, filtered, listing, pass, prevPosts, prevSorted,
                 SITE, SITE_URL, SITE_TITLE, pageTitle>>

\* variant: <ul>{sortedPosts.reverse().map(...)}</ul>
RenderAfterReverse ==
  /\ pc = "render"
  /\ heap' = (sortedPosts :>
                [i \in 1..Len(heap[sortedPosts]) |->
                   heap[sortedPosts][Len(heap[sortedPosts]) + 1 - i]]) @@ heap
  /\ \E tz \in TimeZones : listing' = RenderListing(heap'[sortedPosts], tz)
  /\ pageTitle' = SITE_TITLE
  /\ pc' = "done"
  /\ UNCHANGED <<dir, posts, filtered, sortedPosts, pass, prevPosts,
                 prevSorted, SITE, SITE_URL, SITE_TITLE>>
\* <PageMeta title={`${SITE_TITLE}`} slot="meta" />
\* <ul>{sortedPosts.map(...)}</ul>
Render ==
  /\ pc = "render"
  /\ pageTitle' = SITE_TITLE
  /\ \E tz \in TimeZones : listing' = RenderListing(heap[sortedPosts], tz)
  /\ pc' = "done"
  /\ UNCHANGED <<dir, heap, posts, filtered, sortedPosts, pass, prevPosts,
                 prevSorted, SITE, SITE_URL, SITE_TITLE>>

\* the page is generated again from the same directory: the frontmatter
\* script runs from the top with fresh arrays; the config module stays
\* loaded
Rebuild ==
  /\ pc = "done"
  /\ pass < MaxPasses
  /\ pass' = pass + 1
  /\ prevPosts' = heap[posts]
  /\ prevSorted' = heap[sortedPosts]
  /\ pc' = "readAll"
  /\ heap' = NoArrays
  /\ posts' = "null"
  /\ filtered' = "null"
  /\ sortedPosts' = "null"
  /\ listing' = <<>>
  /\ pageTitle' = ""
  /\ UNCHANGED <<dir, SITE, SITE_URL, SITE_TITLE>>

Next == ImportConfig \/ ReadAll \/ Filter \/ Sort \/ Render \/ Rebuild

Spec == Init /\ [][Next]_vars

SpecDates == InitDates /\ [][Next]_vars

SpecExternal == InitExternal /\ [][Next]_vars

SpecImage == InitImage /\ [][Next]_vars

SpecConfig == InitConfig /\ [][Next]_vars

\* a small blog directory with valid and unparseable dates, SITE set or not
InitFair ==
  InitFrom({ [date |-> d, draft |-> dr, external |-> FALSE,
              url |-> "absent", ogImagePath |-> "image.webp"] :
               d \in {D20230606, D20250616, DUnparseable},
               dr \in {"false", "true"} },
           {SiteBlog, SiteUndefined})

\* The page is one synchronous script: once started, each of its steps
\* runs.  When the page is generated again is up to the build.
SpecFair ==
  /\ InitFair
  /\ [][Next]_vars
  /\ WF_vars(ImportConfig)
  /\ WF_vars(ReadAll)
  /\ WF_vars(Filter)
  /\ WF_vars(Sort)
  /\ WF_vars(Render)

\* ------------------------------------------------------------------ claims
\* the pass has computed sortedPosts
Sorted == sortedPosts # "null"
Out == heap[sortedPosts]

\* calendar order of two dates, read off year, month and day
Earlier(d1, d2) ==
  \/ d1.y < d2.y
  \/ d1.y = d2.y /\ d1.m < d2.m
  \/ d1.y = d2.y /\ d1.m = d2.m /\ d1.d < d2.d

Occurrences(arr, x) == Cardinality({ i \in 1..Len(arr) : arr[i] = x })
Elements(arr) == { arr[i] : i \in 1..Len(arr) }
\* the position in the directory enumeration of a document of the output
InputIndex(x) == CHOOSE i \in 1..Len(dir) : dir[i].slug = x.slug
DatesOf(arr) == [i \in 1..Len(arr) |-> arr[i].frontmatter.date]

\* C1: sortedPosts holds exactly the documents readAll returned whose draft
\* is false or absent, each as often as readAll returned it, and no other.
C1_ExactlyNonDrafts ==
  Sorted =>
    \A x \in Elements(dir) \cup Elements(Out) :
      Occurrences(Out, x) =
        IF x.frontmatter.draft \in {"false", "absent"}
        THEN Occurrences(dir, x) ELSE 0

C1_Witness ==
  /\ pc = "done"
  /\ Len(dir) = 3
  /\ { dir[i].frontmatter.draft : i \in 1..3 } = DraftValues
  /\ Len(Out) = 2

\* C2: in sortedPosts no document is dated earlier than one that follows it.
C2_DescendingDates ==
  Sorted =>
    \A i, j \in 1..Len(Out) :
      i < j => ~ Earlier(Out[i].frontmatter.date, Out[j].frontmatter.date)

C2_Witness ==
  /\ pc = "done"
  /\ DatesOf(dir) = <<D20230606, D20230820, D20250616>>
  /\ DatesOf(Out) = <<D20250616, D20230820, D20230606>>

\* C3: two documents of sortedPosts with the same date stand in the order
\* in which readAll returned them.
C3_StableTies ==
  Sorted =>
    \A i, j \in 1..Len(Out) :
      (i < j /\ Out[i].frontmatter.date = Out[j].frontmatter.date)
        => InputIndex(Out[i]) < InputIndex(Out[j])

C3_Witness ==
  /\ pc = "done"
  /\ DatesOf(dir) = <<D20230728, D20250616, D20230728>>
  /\ Out = <<dir[2], dir[1], dir[3]>>

\* C4: of two documents of sortedPosts, the one with the later calendar date
\* comes first, also across a day, month, leap-day or year boundary.
C4_ChronologicalOrder ==
  Sorted =>
    \A i, j \in 1..Len(Out) :
      Earlier(Out[i].frontmatter.date, Out[j].frontmatter.date) => j < i

C4_Witness ==
  /\ pc = "done"
  /\ DatesOf(dir) = <<Date(2023, 9, 30), Date(2023, 12, 31), Date(2024, 1, 1)>>
  /\ DatesOf(Out) = <<Date(2024, 1, 1), Date(2023, 12, 31), Date(2023, 9, 30)>>

\* C5: once sortedPosts is computed, posts still holds what readAll
\* returned, drafts included, in the same order, and sortedPosts is another
\* array than posts.
C5_InputUntouched ==
  Sorted => (heap[posts] = dir /\ sortedPosts # posts)

C5_Witness ==
  /\ pc = "done"
  /\ Len(dir) = 3
  /\ dir[1].frontmatter.draft = "true"
  /\ Out = <<dir[3], dir[2]>>

\* C6: filtering and sorting sortedPosts again gives sortedPosts back.
C6_Idempotent ==
  pc = "render" => SortResults(FilterDraft(Out)) = {Out}

C6_Witness ==
  /\ pc = "render"
  /\ Len(Out) = 3
  /\ Out[1].frontmatter.date = Out[2].frontmatter.date
  /\ Out[2].frontmatter.date # Out[3].frontmatter.date

\* C7: a second pass over the same posts computes the sortedPosts the first
\* pass computed.
C7_Deterministic ==
  (pass > 1 /\ Sorted /\ heap[posts] = prevPosts) => Out = prevSorted

C7_Witness ==
  /\ pass = 2
  /\ pc = "done"
  /\ Len(Out) = 3
  /\ Out[2].frontmatter.date = Out[3].frontmatter.date
  /\ Out = prevSorted

\* C8: with an empty directory the pass does not fail, sortedPosts is empty
\* and the listing has no entry.
C8_EmptyInput ==
  dir = <<>> =>
    /\ pc # "failed"
    /\ Sorted => Out = <<>>
    /\ pc = "done" => listing = <<>>

C8_Witness == dir = <<>> /\ pc = "done" /\ Sorted

\* C9: from the posts dated 2023-06-06 (not a draft), 2025-06-16 (not a
\* draft) and 2023-08-20 (a draft), in any order, sortedPosts is the post of
\* 2025-06-16 followed by the post of 2023-06-06.
C9_Example1 ==
  \A a, b, c \in 1..Len(dir) :
    ( /\ Sorted
      /\ Len(dir) = 3
      /\ {a, b, c} = {1, 2, 3}
      /\ dir[a].frontmatter.date = D20230606 /\ dir[a].frontmatter.draft = "false"
      /\ dir[b].frontmatter.date = D20250616 /\ dir[b].frontmatter.draft = "false"
      /\ dir[c].frontmatter.date = D20230820 /\ dir[c].frontmatter.draft = "true" )
    => Out = <<dir[b], dir[a]>>

C9_Witness ==
  /\ pc = "done"
  /\ DatesOf(dir) = <<D20230606, D20250616, D20230820>>
  /\ [i \in 1..3 |-> dir[i].frontmatter.draft] = <<"false", "false", "true">>
  /\ Out = <<dir[2], dir[1]>>

\* C10: the published documents that share a date are each in sortedPosts
\* exactly once, and no document of another date stands between two of them.
C10_TiesContiguous ==
  Sorted =>
    \A a, b \in 1..Len(dir) :
      ( /\ a # b
        /\ dir[a].frontmatter.draft # "true"
        /\ dir[b].frontmatter.draft # "true"
        /\ dir[a].frontmatter.date = dir[b].frontmatter.date )
      => /\ Occurrences(Out, dir[a]) = 1
         /\ Occurrences(Out, dir[b]) = 1
         /\ \A i, j, k \in 1..Len(Out) :
              (i < k /\ k < j /\ Out[i] = dir[a] /\ Out[j] = dir[b])
                => Out[k].frontmatter.date = dir[a].frontmatter.date

C10_Witness ==
  /\ pc = "done"
  /\ DatesOf(dir) = <<D20230606, D20230820, D20230606>>
  /\ Out = <<dir[2], dir[1], dir[3]>>

\* the directory with external and url of its i-th document replaced
WithExternal(d, i, e) ==
  [d EXCEPT ![i].frontmatter.external = e.external,
            ![i].frontmatter.url = e.url]
SlugsOf(arr) == [i \in 1..Len(arr) |-> arr[i].slug]

\* C11: changing external and url of a document of the input changes neither
\* which positions of the input the filter/sort selects nor their order, and
\* every document of sortedPosts is a document of the input, all its fields
\* as they were.
C11_ExternalAgnostic ==
  pc = "render" =>
    /\ \A i \in 1..Len(dir) : \A e \in {LocalPost, LinkPost} :
         /\ SortResults(FilterDraft(WithExternal(dir, i, e))) # {}
         /\ \A r \in SortResults(FilterDraft(WithExternal(dir, i, e))) :
              SlugsOf(r) = SlugsOf(Out)
    /\ \A k \in 1..Len(Out) : Out[k] = dir[InputIndex(Out[k])]

C11_Witness ==
  /\ pc = "render"
  /\ Len(dir) = 3
  /\ dir[1].frontmatter.external /\ dir[1].frontmatter.url # "absent"
  /\ ~ dir[2].frontmatter.external
  /\ dir[3].frontmatter.draft = "true"
  /\ Out = <<dir[2], dir[1]>>

\* C12: the listing has one entry per document of sortedPosts, the i-th
\* entry showing the title, a link and the date of the i-th document.
C12_ListingFollowsSortedPosts ==
  pc = "done" =>
    /\ Len(listing) = Len(Out)
    /\ \A i \in 1..Len(Out) :
         /\ listing[i].title = Out[i].frontmatter.title
         /\ listing[i].href[Len(listing[i].href)]
              \in {Out[i].slug, Out[i].frontmatter.url}
         /\ listing[i].datetime = <<Out[i].frontmatter.date.y,
                                    Out[i].frontmatter.date.m,
                                    Out[i].frontmatter.date.d>>
         /\ \E tz \in TimeZones :
              listing[i].formattedDate =
                toLocaleDateString(Out[i].frontmatter.date, tz)

C12_Witness ==
  /\ pc = "done"
  /\ Len(listing) = 3
  /\ DatesOf(Out) = <<D20250616, D20230606, D20230606>>
  /\ Out[2].frontmatter.external /\ ~ Out[3].frontmatter.external

\* C13: the title of an external document links to its url, the title of
\* any other document to /blog/<slug>.
C13_LinkTarget ==
  pc = "done" =>
    \A i \in 1..Len(Out) :
      listing[i].href =
        IF Out[i].frontmatter.external
        THEN <<Out[i].frontmatter.url>>
        ELSE <<"/blog/", Out[i].slug>>

C13_Witness ==
  /\ pc = "done"
  /\ Len(listing) = 2
  /\ listing[1].href = <<LinkPost.url>>
  /\ listing[2].href = <<"/blog/", Out[2].slug>>

\* an entry shows an image: it has an <img> and the <img> has a src
ShowsImage(entry) == entry.img \notin {"none", "absent"}

\* C14 as stated: every entry, of an external document or not, shows the
\* image of ogImagePath exactly when the document has an ogImagePath.
C14_ImageIffPath ==
  pc = "done" =>
    \A i \in 1..Len(Out) :
      /\ ShowsImage(listing[i]) <=> Out[i].frontmatter.ogImagePath # "absent"
      /\ ShowsImage(listing[i]) => listing[i].img = Out[i].frontmatter.ogImagePath

\* C14, amended: the entry of a document that is not external shows the
\* image of ogImagePath exactly when the document has an ogImagePath; the
\* entry of an external document has no image.
C14_ImageIffPathLocal ==
  pc = "done" =>
    \A i \in 1..Len(Out) :
      IF Out[i].frontmatter.external
      THEN listing[i].img = "none"
      ELSE /\ ShowsImage(listing[i])
                <=> Out[i].frontmatter.ogImagePath # "absent"
           /\ ShowsImage(listing[i])
                => listing[i].img = Out[i].frontmatter.ogImagePath

C14_Witness ==
  /\ pc = "done"
  /\ Len(Out) = 3
  /\ Out[1].frontmatter.external /\ Out[1].frontmatter.ogImagePath = "image.webp"
  /\ ~ Out[2].frontmatter.external /\ Out[2].frontmatter.ogImagePath = "absent"
  /\ ~ Out[3].frontmatter.external /\ Out[3].frontmatter.ogImagePath = "image.webp"
  /\ listing[1].img = "none" /\ listing[3].img = "image.webp"

\* C15: every external document the renderer gets has a url, and the link of
\* every entry that opens off-site is a url.
C15_ExternalHasUrl ==
  /\ pc \in {"render", "done"} =>
       \A i \in 1..Len(Out) :
         Out[i].frontmatter.external => Out[i].frontmatter.url # "absent"
  /\ pc = "done" =>
       \A i \in 1..Len(listing) :
         listing[i].newTab => listing[i].href # <<"absent">>

C15_Witness ==
  /\ pc = "done"
  /\ Len(listing) = 2
  /\ listing[1].newTab /\ listing[2].newTab
  /\ listing[1].href = <<LinkPost.url>>

\* C17: whatever the ogImagePath of the documents is (none, an image that
\* is served, one that is not), the page does not fail and every document
\* has its entry in the listing.
C17_ImageNeverFatal ==
  /\ pc # "failed"
  /\ pc = "done" =>
       /\ Len(listing) = Len(dir)
       /\ \A i \in 1..Len(dir) :
            \E k \in 1..Len(listing) :
              listing[k].title = dir[i].frontmatter.title

C17_Witness ==
  /\ pc = "done"
  /\ Len(dir) = 3
  /\ \A i \in 1..3 : ~ dir[i].frontmatter.external
  /\ { dir[i].frontmatter.ogImagePath : i \in 1..3 } = ImagePaths
  /\ Len(listing) = 3

\* C16: when the schema rejects a document of the directory, the pass never
\* gets to filter, sort or render: no array of posts exists and the listing
\* stays empty.
C16_FailFast ==
  (\E i \in 1..Len(dir) : ~ Validates(dir[i])) =>
    /\ pc \in {"import", "readAll", "failed"}
    /\ posts = "null" /\ filtered = "null" /\ sortedPosts = "null"
    /\ listing = <<>>

C16_Witness ==
  /\ pc = "failed"
  /\ SITE_URL # <<>>
  /\ DatesOf(dir) = <<D20250616, DUnparseable, D20230606>>
  /\ \A i \in 1..3 : dir[i].frontmatter.draft = "false"

\* C18: once the config module is loaded, SITE_URL is scheme, "://" and host
\* of SITE, followed by ":" and the port when SITE names a port other than
\* the scheme's own; nothing of the path, query or fragment of SITE is in
\* it; it is set before the script runs and no step changes it or SITE.
C18_SiteUrlIsOrigin ==
  /\ [](SITE_URL # <<>> =>
          /\ SITE_URL =
               <<SITE[1].v, "://", SITE[3].v>>
                 \o (IF /\ Len(SITE) >= 5
                        /\ SITE[4].k = "colon"
                        /\ ~ (SITE[1].v = "https" /\ SITE[5].v = "443")
                        /\ ~ (SITE[1].v = "http" /\ SITE[5].v = "80")
                     THEN <<":", SITE[5].v>> ELSE <<>>)
          /\ \A i \in 1..Len(SITE) :
               SITE[i].k \in {"path", "query", "fragment"}
                 => \A j \in 1..Len(SITE_URL) : SITE_URL[j] # SITE[i].v)
  /\ [](pc \notin {"import", "failed"} => SITE_URL # <<>>)
  /\ [][SITE' = SITE /\ (SITE_URL # <<>> => SITE_URL' = SITE_URL)]_vars

C18_Witness ==
  /\ pc = "done"
  /\ pass = 2
  /\ SITE = SiteDefaultPort
  /\ SITE_URL = <<"https", "://", "blog.damianesteban.dev">>

\* the order of the steps of a pass, and the start of the next pass
StepOrder ==
  { <<"import", "readAll">>, <<"import", "failed">>, <<"readAll", "filter">>,
    <<"readAll", "failed">>, <<"filter", "sort">>, <<"sort", "render">>,
    <<"render", "done">>, <<"done", "readAll">> }

\* C19: every step of a pass is the next one in the order readAll, filter,
\* sort, render, each taken once per pass; filter finds in posts all that
\* the directory holds; the renderer finds sortedPosts sorted; from the sort
\* to the end of the pass sortedPosts is not modified.
C19_StepsInOrder ==
  /\ [][ /\ <<pc, pc'>> \in StepOrder
         /\ pass' = IF pc = "done" THEN pass + 1 ELSE pass
         /\ (pc \in {"render", "done"} /\ pc' \in {"render", "done"})
              => /\ sortedPosts' = sortedPosts
                 /\ heap'[sortedPosts] = heap[sortedPosts] ]_vars
  /\ [](pc \in {"import", "readAll"} => posts = "null")
  /\ [](pc \in {"import", "readAll", "filter"} => filtered = "null")
  /\ [](pc \in {"import", "readAll", "filter", "sort"} =>
          (sortedPosts = "null" /\ listing = <<>>))
  /\ [](pc = "filter" => heap[posts] = dir)
  /\ [](pc \in {"render", "done"} =>
          \A i, j \in 1..Len(Out) :
            i < j => ~ Earlier(Out[i].frontmatter.date, Out[j].frontmatter.date))
  /\ [](pc = "done" => Len(listing) = Len(Out))

C19_Witness ==
  /\ pc = "done"
  /\ pass = 2
  /\ DatesOf(dir) = <<D20230606, D20230728, D20250616>>
  /\ Len(listing) = 3
  /\ listing[1].title = dir[3].frontmatter.title

\* the documents of the directory that are not drafts
Published(d) == { i \in 1..Len(d) : d[i].frontmatter.draft # "true" }

\* C20: every pass ends, completed or failed; a completed pass has an entry
\* for every published document, a failed one has none, and no entry shows
\* before the pass is completed; a failed pass is not taken up again.
C20_PassEnds ==
  /\ (pc \notin {"done", "failed"}) ~> (pc \in {"done", "failed"})
  /\ [](pc = "done" => Len(listing) = Cardinality(Published(dir)))
  /\ [](pc # "done" => listing = <<>>)
  /\ [][pc = "failed" => pc' = "failed"]_vars

C20_Witness ==
  /\ pc = "done"
  /\ pass = 2
  /\ Len(dir) = 3
  /\ Len(listing) = 2

\* the documents of the directory an internal link leads to
LinkedDocuments(link) ==
  { i \in 1..Len(dir) : link = <<"/blog/", dir[i].slug>> }

\* C21: no two entries of documents that are not external have the same
\* link, and the link of such an entry leads to one document of the
\* directory, the one the entry was rendered from.
C21_InternalLinksDistinct ==
  pc = "done" =>
    /\ \A i, j \in 1..Len(listing) :
         (i # j /\ ~ listing[i].newTab /\ ~ listing[j].newTab)
           => listing[i].href # listing[j].href
    /\ \A i \in 1..Len(listing) :
         ~ listing[i].newTab =>
           /\ Cardinality(LinkedDocuments(listing[i].href)) = 1
           /\ \A k \in LinkedDocuments(listing[i].href) : dir[k] = Out[i]

C21_Witness ==
  /\ pc = "done"
  /\ Len(listing) = 3
  /\ ~ listing[1].newTab /\ listing[2].newTab /\ ~ listing[3].newTab
  /\ Out[1].frontmatter.date = Out[3].frontmatter.date

\* C22: when SITE is not set or is not a URL, the config module does not
\* load and the page does not run: it reads no post, renders no listing and
\* no title, and has neither SITE_TITLE nor SITE_URL; a finished page shows
\* the title of the site and has the origin of SITE.
C22_InvalidSiteFailsPage ==
  /\ SITE \in {SiteUndefined, SiteNoHost} =>
       /\ pc \in {"import", "failed"}
       /\ SITE_URL = <<>> /\ SITE_TITLE = ""
       /\ posts = "null" /\ listing = <<>> /\ pageTitle = ""
  /\ pc = "done" =>
       /\ pageTitle = "Cloud & Code with Damian Esteban "
       /\ SITE_URL # <<>>
       /\ SITE_URL[1] = SITE[1].v

C22_Witness ==
  /\ pc = "failed"
  /\ SITE = SiteUndefined
  /\ Len(dir) = 2
====
